---- MODULE Spec2Model ----
(***************************************************************************)
(* Canvas -> Notion synchronisation (app.py, web.py).                      *)
(*                                                                         *)
(* The two remote stores are state: the Notion database (store), the       *)
(* children of Notion pages (children) and the Canvas content (canvas).    *)
(* Every HTTP request of the program is one step that either succeeds or   *)
(* raises requests.HTTPError.                                              *)
(***************************************************************************)
EXTENDS Integers, Sequences, FiniteSets, TLC

\* ------------------------------------------------------------------------
\* Bounds of the model
\* ------------------------------------------------------------------------
\* upsert_assignment calls made by the callers of the upsert harness
MaxCalls == 3
\* pages of a paginated Canvas listing
MaxPages == 3
\* courses in a Canvas course listing
MaxCourses == 2
\* assignments of a course
MaxAsg == 2
\* child blocks the digest page holds before a run
MaxPrior == 3
\* children in one page of the destination's child listing; stands for the
\* page_size=100 of app.py 317
PageSize == 2

\* ------------------------------------------------------------------------
\* Python values
\* ------------------------------------------------------------------------
\* Python's None, for values that are strings otherwise
None == "<None>"

\* str() of a Canvas id; the id 0 stands for a missing id (None)
Str(n) == IF n = 0 THEN "None" ELSE <<"1", "2", "3", "4", "5", "6", "7", "8", "9">>[n]

\* the two concurrent invocations of the program that the model knows
Runs == {1, 2}

\* ------------------------------------------------------------------------
\* State
\* ------------------------------------------------------------------------
VARIABLES
    cfg,        \* the environment: SECRET_KEY, ONLY_DATED, SYLLABI_PAGE_ID
    canvas,     \* the source: course listings, assignments, course content
    store,      \* the destination database: its pages, in creation order
    children,   \* the child blocks of each destination page
    upc,        \* upsert_assignment of each run: idle, query, write, done, raised
    ux,         \* upsert_assignment's argument x, per run
    ures,       \* upsert_assignment's local results, per run
    ulog,       \* history of the upserts: keys upserted, branch taken, calls made
    pc,         \* the HTTP-triggered run: where it stands
    response,   \* what the /sync endpoint returned
    asg,        \* sync_once's locals in the assignment pass
    dig,        \* the digest pass's locals
    log,        \* history of the run: fetches, upsert attempts, remote calls
    pag,        \* paginate_canvas: its locals and what it yielded
    web         \* the pages a paginated Canvas listing is served as

cfgVars == <<cfg, canvas>>
notionVars == <<store, children>>
upsertVars == <<upc, ux, ures, ulog>>
runVars == <<pc, response, asg, dig, log>>
pagVars == <<pag, web>>
vars == <<cfg, canvas, store, children, upc, ux, ures, ulog, pc, response, asg, dig, log, pag, web>>

\* ------------------------------------------------------------------------
\* Assignments (app.py 130-164)
\* ------------------------------------------------------------------------
\* a Canvas assignment as the assignments listing returns it; points -1 and
\* id 0 stand for absent values (None)
SrcAssignment(id, name, due) == [id |-> id, name |-> name, due_at |-> due, html_url |-> IF id = 0 THEN None ELSE "https://canvas/a/" \o Str(id), points_possible |-> IF due = None THEN -1 ELSE 10, has_published |-> due # None, published |-> FALSE, workflow_state |-> IF due = None THEN None ELSE "published"]

normalize_assignment(a, course_name) ==
    [ id |-> Str(a.id),
      name |-> IF a.name = None \/ a.name = "" THEN "Assignment " \o Str(a.id) ELSE a.name,
      due_at |-> a.due_at,
      url |-> a.html_url,
      points |-> a.points_possible,
      course |-> course_name,
      published |-> IF a.has_published THEN a.published ELSE TRUE,
      workflow_state |-> a.workflow_state ]

\* a Python string or None used as a condition (x.get("url"), not cid, ...)
Truthy(s) == s # None /\ s # ""

build_notion_properties(x) ==
    LET status_val == IF Truthy(x.workflow_state) THEN x.workflow_state
                      ELSE IF x.published THEN "published" ELSE "unpublished"
    IN  [Name |-> x.name, Course |-> x.course, CanvasID |-> x.id]
        @@ (IF Truthy(x.url) THEN [URL |-> x.url] ELSE <<>>)
        @@ (IF x.points # -1 THEN [Points |-> x.points] ELSE <<>>)
        @@ (IF Truthy(x.due_at) THEN [Due |-> x.due_at] ELSE <<>>)
        @@ (IF Truthy(status_val) THEN [Status |-> status_val] ELSE <<>>)

\* ------------------------------------------------------------------------
\* The destination database (app.py 142-178)
\* ------------------------------------------------------------------------
\* the pages of database st whose Canvas ID property equals the key
Matching(st, key) == {i \in 1..Len(st) : "CanvasID" \in DOMAIN st[i].props /\ st[i].props.CanvasID = key}

\* a query that matches nothing
notion_query_no_match(st, canvas_id) == {<<>>}

\* The query's possible answers: page_size 1, so at most one page; which of
\* several matching pages comes first is the destination's choice.
notion_query_by_canvas_id(st, canvas_id) ==
    IF Matching(st, canvas_id) = {} THEN {<<>>}
    ELSE {<<st[i]>> : i \in Matching(st, canvas_id)}

\* a database page that holds the key already is not created again
notion_create_page_unique(st, props) == IF Matching(st, props.CanvasID) # {} THEN st ELSE Append(st, [id |-> Len(st) + 1, props |-> props])

notion_create_page(st, props) == Append(st, [id |-> Len(st) + 1, props |-> props])

notion_update_page(st, page_id, props) == [i \in 1..Len(st) |-> IF st[i].id = page_id THEN [st[i] EXCEPT !.props = props @@ st[i].props] ELSE st[i]]

\* ------------------------------------------------------------------------
\* upsert_assignment (app.py 180-190), one step per request
\* ------------------------------------------------------------------------
\* line 181: the query; an HTTP error leaves upsert_assignment
UpsertQuery(r) ==
    /\ upc[r] = "query"
    /\ \/ \E res \in notion_query_by_canvas_id(store, ux[r].id) :
            /\ ures' = [ures EXCEPT ![r] = res]
            /\ upc' = [upc EXCEPT ![r] = "write"]
       \/ /\ upc' = [upc EXCEPT ![r] = "raised"]
          /\ ures' = ures
    /\ UNCHANGED <<cfgVars, notionVars, ux, ulog, runVars, pagVars>>

\* lines 182-189: update the page found, or create one
UpsertWrite(r) ==
    /\ upc[r] = "write"
    /\ LET props == build_notion_properties(ux[r])
       IN  \/ /\ ures[r] # <<>>
              /\ store' = notion_update_page(store, ures[r][1].id, props)
              /\ ulog' = [ulog EXCEPT !.okKeys = @ \cup {ux[r].id}, !.branch[r] = "update"]
              /\ upc' = [upc EXCEPT ![r] = "done"]
           \/ /\ ures[r] = <<>>
              /\ store' = notion_create_page(store, props)
              /\ ulog' = [ulog EXCEPT !.okKeys = @ \cup {ux[r].id}, !.branch[r] = "create"]
              /\ upc' = [upc EXCEPT ![r] = "done"]
           \/ /\ upc' = [upc EXCEPT ![r] = "raised"]
              /\ UNCHANGED <<store, ulog>>
    /\ UNCHANGED <<cfgVars, children, ux, ures, runVars, pagVars>>

\* ------------------------------------------------------------------------
\* Callers of upsert_assignment outside a sync run: any invocation may
\* upsert any record, one call after the other or overlapping
\* ------------------------------------------------------------------------
\* the records the callers pass: two keys, and one record changed since
HarnessRecords == { normalize_assignment(SrcAssignment(1, "HW 1", "2024-05-01"), "Bio"), normalize_assignment(SrcAssignment(1, "HW 1 (moved)", "2024-06-01"), "Bio"), normalize_assignment(SrcAssignment(2, None, None), "Bio") }

\* databases holding at most one page per identity key
HarnessStores == { <<>>, notion_create_page(<<>>, build_notion_properties(normalize_assignment(SrcAssignment(1, "HW 1", "2024-05-01"), "Bio"))) }

CallUpsert(r) ==
    /\ pc = "harness"
    /\ upc[r] = "idle"
    /\ ulog.ncalls < MaxCalls
    /\ \E x \in HarnessRecords :
          /\ ux' = [ux EXCEPT ![r] = x]
          /\ ulog' = [ulog EXCEPT !.ncalls = @ + 1, !.was[r] = x.id \in ulog.okKeys, !.branch[r] = "none"]
    /\ upc' = [upc EXCEPT ![r] = "query"]
    /\ UNCHANGED <<cfgVars, notionVars, ures, runVars, pagVars>>

\* a call that starts only when no other call is under way
CallUpsertSeq(r) ==
    /\ \A q \in Runs : upc[q] = "idle"
    /\ CallUpsert(r)

ReturnUpsert(r) ==
    /\ pc = "harness"
    /\ upc[r] \in {"done", "raised"}
    /\ upc' = [upc EXCEPT ![r] = "idle"]
    /\ UNCHANGED <<cfgVars, notionVars, ux, ures, ulog, runVars, pagVars>>

\* ------------------------------------------------------------------------
\* Values of the parts of the state a specification does not use
\* ------------------------------------------------------------------------
NoRecord == [id |-> "", name |-> "", due_at |-> None, url |-> None, points |-> -1, course |-> "", published |-> TRUE, workflow_state |-> None]

UpsertIdle ==
    /\ upc = [r \in Runs |-> "idle"]
    /\ ux = [r \in Runs |-> NoRecord]
    /\ ures = [r \in Runs |-> <<>>]
    /\ ulog = [okKeys |-> {}, branch |-> [r \in Runs |-> "none"], was |-> [r \in Runs |-> FALSE], ncalls |-> 0]

NoAsg == [courses |-> <<>>, ci |-> 0, assignments |-> <<>>, ai |-> 0]

NoDig == [courses |-> <<>>, di |-> 0, step |-> "none", blocks |-> <<>>, master |-> -1, url |-> None, data |-> <<>>, bi |-> 0, outcome |-> "none", source |-> "none", primary |-> "none", failed_at |-> "none"]

NoLog == [fetched |-> <<>>, attempts |-> <<>>, errors |-> <<>>, touched |-> FALSE, phases |-> <<>>, invoked |-> FALSE, req |-> [q |-> None, body |-> [kind |-> "invalid", key |-> None]], store0 |-> <<>>, children0 |-> <<>>]

NoCanvas == [active |-> <<>>, assignments |-> <<>>, enrolled |-> <<>>, all |-> <<>>, content |-> <<>>]

NoCfg == [SECRET_KEY |-> "", ONLY_DATED |-> TRUE, SYLLABI_PAGE_ID |-> ""]

NoPag == [pc |-> "off", url |-> <<>>, params |-> "{}", yielded |-> <<>>, gets |-> <<>>, err |-> "none"]

RunOff ==
    /\ response = None
    /\ asg = NoAsg
    /\ dig = NoDig
    /\ log = NoLog

PagOff ==
    /\ pag = NoPag
    /\ web = <<>>

\* ------------------------------------------------------------------------
\* Specifications of the upsert alone
\* ------------------------------------------------------------------------
InitUpsert ==
    /\ cfg = NoCfg
    /\ canvas = NoCanvas
    /\ store \in HarnessStores
    /\ children = <<>>
    /\ UpsertIdle
    /\ pc = "harness"
    /\ RunOff
    /\ PagOff

NextUpsert == \E r \in Runs : CallUpsertSeq(r) \/ UpsertQuery(r) \/ UpsertWrite(r) \/ ReturnUpsert(r)

SpecUpsert == InitUpsert /\ [][NextUpsert]_vars

NextRace == \E r \in Runs : CallUpsert(r) \/ UpsertQuery(r) \/ UpsertWrite(r) \/ ReturnUpsert(r)

SpecRace == InitUpsert /\ [][NextRace]_vars

\* the identity keys in use
Keys(st) == {st[i].props.CanvasID : i \in {j \in 1..Len(st) : "CanvasID" \in DOMAIN st[j].props}}

\* C1: without concurrency the database never holds two pages with one
\* identity key, holds exactly one for every key upserted successfully, and
\* an upsert of a key upserted before finds its page (the update branch).
C1_Idempotent ==
    /\ \A k \in Keys(store) : Cardinality(Matching(store, k)) = 1
    /\ \A k \in ulog.okKeys : Cardinality(Matching(store, k)) = 1
    /\ \A r \in Runs : upc[r] = "write" /\ ux[r].id \in ulog.okKeys => ures[r] # <<>>
    /\ \A r \in Runs : upc[r] = "done" /\ ulog.was[r] => ulog.branch[r] = "update"

\* a second upsert of an unchanged record has taken the update branch
C1_Witness == \E r \in Runs : upc[r] = "done" /\ ulog.was[r] /\ ulog.branch[r] = "update" /\ store[1].props = build_notion_properties(ux[r]) /\ Len(store) = 1

\* C9: nothing stands between a run's query and its create: a run whose
\* query found no page creates one, whatever another run created meanwhile,
\* so two overlapping runs leave two pages with one identity key.
C9_CreateUnguarded == [][\A r \in Runs : (upc[r] = "write" /\ ures[r] = <<>> /\ upc'[r] = "done") => Cardinality(Matching(store', ux[r].id)) = Cardinality(Matching(store, ux[r].id)) + 1]_vars

\* both runs queried before either created, and the key has two pages
C9_Witness == /\ upc[1] = "done" /\ upc[2] = "done" /\ ulog.branch[1] = "create" /\ ulog.branch[2] = "create" /\ ux[1].id = ux[2].id /\ Cardinality(Matching(store, ux[1].id)) = 2

\* ------------------------------------------------------------------------
\* Python's string operations, on strings as sequences of characters
\* ------------------------------------------------------------------------
\* str.find: the 0-based index of the first ch, or -1
Find(s, ch) == IF \E i \in 1..Len(s) : s[i] = ch THEN (CHOOSE i \in 1..Len(s) : s[i] = ch /\ \A j \in 1..(i - 1) : s[j] # ch) - 1 ELSE -1

\* an index of a slice, as Python clamps it
SliceIndex(s, i) == IF i < 0 THEN (IF Len(s) + i < 0 THEN 0 ELSE Len(s) + i) ELSE (IF i > Len(s) THEN Len(s) ELSE i)

\* s[start:end]
Slice(s, start, end) == IF SliceIndex(s, start) >= SliceIndex(s, end) THEN <<>> ELSE SubSeq(s, SliceIndex(s, start) + 1, SliceIndex(s, end))

RECURSIVE Split(_)
\* s.split(",")
Split(s) == IF Find(s, ",") = -1 THEN <<s>> ELSE <<SubSeq(s, 1, Find(s, ","))>> \o Split(SubSeq(s, Find(s, ",") + 2, Len(s)))

RECURSIVE Strip(_)
\* s.strip()
Strip(s) ==
    IF s # <<>> /\ s[1] = " " THEN Strip(Tail(s))
    ELSE IF s # <<>> /\ s[Len(s)] = " " THEN Strip(SubSeq(s, 1, Len(s) - 1))
    ELSE s

\* pat in s
Contains(s, pat) == \E i \in 0..(Len(s) - Len(pat)) : SubSeq(s, i + 1, i + Len(pat)) = pat

\* ------------------------------------------------------------------------
\* paginate_canvas (app.py 42-64)
\* ------------------------------------------------------------------------
\* the text rel="next"
RelNext == <<"r", "e", "l", "=", "\"", "n", "e", "x", "t", "\"">>

\* the link of a header that names the first entry's target, whatever its rel
next_url_first_entry(link) ==
    IF link = <<>> THEN <<>>
    ELSE LET p == Strip(Split(link)[1])
         IN  Slice(p, Find(p, "<") + 1, Find(p, ">"))

\* lines 53-62: the successor URL in a Link header; the empty string stands
\* for None too, both end the loop of line 44
next_url(link) ==
    IF link = <<>> THEN <<>>
    ELSE LET parts == [i \in 1..Len(Split(link)) |-> Strip(Split(link)[i])]
             hits == {i \in 1..Len(parts) : Contains(parts[i], RelNext)}
         IN  IF hits = {} THEN <<>>
             ELSE LET p == parts[CHOOSE i \in hits : \A j \in hits : i <= j]
                  IN  Slice(p, Find(p, "<") + 1, Find(p, ">"))

\* lines 48-52: the records of a response body, a list or a single object
Records(json) == IF json.kind = "list" THEN json.items ELSE <<json.value>>

\* lines 44-64, one iteration of the loop: one GET
PaginateGet ==
    /\ pag.pc = "get"
    /\ \/ \E i \in 1..Len(web) :
            /\ web[i].url = pag.url
            /\ \A j \in 1..(i - 1) : web[j].url # pag.url
            /\ pag' = [pag EXCEPT !.gets = Append(@, [url |-> pag.url, params |-> pag.params]),
                                  !.yielded = @ \o Records(web[i].json),
                                  !.url = next_url(web[i].link),
                                  !.params = "{}",
                                  !.pc = IF next_url(web[i].link) # <<>> THEN "get" ELSE "done"]
       \/ /\ \E i \in 1..Len(web) : web[i].url = pag.url
          /\ pag' = [pag EXCEPT !.gets = Append(@, [url |-> pag.url, params |-> pag.params]), !.pc = "raised", !.err = "http"]
       \/ /\ \A i \in 1..Len(web) : web[i].url # pag.url
          /\ pag' = [pag EXCEPT !.gets = Append(@, [url |-> pag.url, params |-> pag.params]), !.pc = "raised", !.err = "no such page"]
    /\ UNCHANGED <<cfgVars, notionVars, upsertVars, runVars, web>>

\* --- the listings served ---
\* the URL of page i of the listing: the base URL, then self-contained URLs
PageUrl(i) == IF i = 1 THEN <<"/", "c">> ELSE <<"/", "c", "?", "n", "=", "1", "&", "p", "=">> \o <<Str(i)>>

\* one entry of a Link header
LinkEntry(url, rel) == <<"<">> \o url \o <<">", ";", " ", "r", "e", "l", "=", "\"">> \o rel \o <<"\"">>

RelCurrent == <<"c", "u", "r", "r", "e", "n", "t">>
RelFirst == <<"f", "i", "r", "s", "t">>
RelPrev == <<"p", "r", "e", "v">>
RelLast == <<"l", "a", "s", "t">>
RelNextName == <<"n", "e", "x", "t">>

\* the Link headers of page i of n that name page i+1 as rel="next"
LinksWithNext(i, n) ==
    { LinkEntry(PageUrl(i + 1), RelNextName),
      LinkEntry(PageUrl(i), RelCurrent) \o <<",">> \o LinkEntry(PageUrl(i + 1), RelNextName) \o <<",">> \o LinkEntry(PageUrl(1), RelFirst) \o <<",">> \o LinkEntry(PageUrl(n), RelLast),
      LinkEntry(PageUrl(1), RelPrev) \o <<",", " ">> \o LinkEntry(PageUrl(i + 1), RelNextName) }

\* the Link headers of the last page: none, or one without rel="next"
LinksWithoutNext(i, n) ==
    { <<>>,
      LinkEntry(PageUrl(i), RelCurrent) \o <<",">> \o LinkEntry(PageUrl(1), RelFirst) \o <<",">> \o LinkEntry(PageUrl(n), RelLast) }

\* the bodies of page i: lists of records, or one object
Bodies(i) == { [kind |-> "list", items |-> <<>>], [kind |-> "list", items |-> <<10 * i + 1>>], [kind |-> "list", items |-> <<10 * i + 1, 10 * i + 2>>], [kind |-> "object", value |-> 10 * i] }

\* page i of a listing of n pages
Pages(i, n) == { [url |-> PageUrl(i), json |-> b, link |-> l] : b \in Bodies(i), l \in IF i < n THEN LinksWithNext(i, n) ELSE LinksWithoutNext(i, n) }

RECURSIVE Chains(_, _)
\* the first k pages of the listings of n pages
Chains(k, n) == IF k = 0 THEN {<<>>} ELSE {Append(w, pg) : w \in Chains(k - 1, n), pg \in Pages(k, n)}

InitPaginate ==
    /\ cfg = NoCfg
    /\ canvas = NoCanvas
    /\ store = <<>>
    /\ children = <<>>
    /\ UpsertIdle
    /\ pc = "off"
    /\ RunOff
    /\ web \in UNION {Chains(n, n) : n \in 1..MaxPages}
    /\ \E params \in {"{}", "per_page=100"} : pag = [pc |-> "get", url |-> PageUrl(1), params |-> params, yielded |-> <<>>, gets |-> <<>>, err |-> "none"]

SpecPaginate == InitPaginate /\ [][PaginateGet]_vars

RECURSIVE AllRecords(_, _)
\* the records of the first k pages, in page order
AllRecords(w, k) == IF k = 0 THEN <<>> ELSE AllRecords(w, k - 1) \o (IF w[k].json.kind = "list" THEN w[k].json.items ELSE <<w[k].json.value>>)

\* C4: over a chain of pages linked by rel="next", paginate_canvas makes one
\* GET per page in page order, sends the caller's parameters with the first
\* GET only, yields the pages' records in order, and stops after the page
\* without a next link.
C4_Pagination ==
    /\ Len(pag.gets) <= Len(web)
    /\ \A k \in 1..Len(pag.gets) : pag.gets[k].url = web[k].url /\ (k > 1 => pag.gets[k].params = "{}")
    /\ pag.err # "no such page"
    /\ pag.pc \in {"get", "done"} => pag.yielded = AllRecords(web, Len(pag.gets))
    /\ pag.pc = "get" => Len(pag.gets) < Len(web) /\ pag.url = web[Len(pag.gets) + 1].url
    /\ pag.pc = "done" => Len(pag.gets) = Len(web) /\ pag.yielded = AllRecords(web, Len(web))

\* three linked pages were fetched to the end with the caller's parameters
C4_Witness == pag.pc = "done" /\ Len(web) = 3 /\ Len(pag.gets) = 3 /\ pag.gets[1].params = "per_page=100" /\ Len(pag.yielded) >= 4

\* ------------------------------------------------------------------------
\* The /sync endpoint (web.py 20-37)
\* ------------------------------------------------------------------------
\* keys a caller may send, None for no key
KeyValues == {None, "", "k1", "k2"}

\* request bodies: not JSON, JSON null, or an object with or without a key
Bodies_ == {[kind |-> "invalid", key |-> None], [kind |-> "null", key |-> None]} \cup {[kind |-> "object", key |-> k] : k \in KeyValues}

\* lines 23-31: the key of the query, else the key of the JSON body
RequestKey(q, body) == IF Truthy(q) THEN q ELSE IF body.kind = "object" THEN body.key ELSE None

\* line 33 without its test of the secret
AuthorizedAnySecret(secret, key) == key = secret

\* line 33, negated
Authorized(secret, key) == ~(~Truthy(secret) \/ key # secret)

NoRequest == [q |-> None, body |-> [kind |-> "invalid", key |-> None]]

\* a request reaches the endpoint
Receive ==
    /\ pc = "idle"
    /\ \E q \in KeyValues, body \in Bodies_ : log' = [log EXCEPT !.req = [q |-> q, body |-> body]]
    /\ pc' = "received"
    /\ UNCHANGED <<cfgVars, notionVars, upsertVars, response, asg, dig, pagVars>>

\* lines 23-36: the handler up to its call of sync_once; an authorized
\* request is not looked at again
Sync ==
    /\ pc = "received"
    /\ IF Authorized(cfg.SECRET_KEY, RequestKey(log.req.q, log.req.body))
       THEN /\ pc' = "get_active_courses"
            /\ response' = response
            /\ log' = [log EXCEPT !.invoked = TRUE, !.req = NoRequest]
       ELSE /\ pc' = "responded"
            /\ response' = "unauthorized"
            /\ log' = log
    /\ UNCHANGED <<cfgVars, notionVars, upsertVars, asg, dig, pagVars>>

\* line 37
SyncReturn ==
    /\ pc = "sync_complete"
    /\ pc' = "responded"
    /\ response' = "synced"
    /\ UNCHANGED <<cfgVars, notionVars, upsertVars, asg, dig, log, pagVars>>

\* ------------------------------------------------------------------------
\* sync_once, the assignment pass (app.py 428-452)
\* ------------------------------------------------------------------------
\* lines 357, 434
CourseName(c) == IF Truthy(c.name) THEN c.name ELSE "Course " \o Str(c.id)

\* line 430: the listing; its HTTP error is caught nowhere
GetActiveCourses ==
    /\ pc = "get_active_courses"
    /\ \/ /\ asg' = [asg EXCEPT !.courses = canvas.active, !.ci = 1]
          /\ log' = [log EXCEPT !.touched = TRUE, !.phases = Append(@, "assignments"), !.fetched = [i \in 1..Len(canvas.active) |-> "none"]]
          /\ pc' = "courses"
          /\ response' = response
       \/ /\ log' = [log EXCEPT !.touched = TRUE, !.phases = Append(@, "assignments")]
          /\ pc' = "responded"
          /\ response' = "internal server error"
          /\ asg' = asg
    /\ UNCHANGED <<cfgVars, notionVars, upsertVars, dig, pagVars>>

\* lines 432-436: a course without id is passed over
SkipCourse ==
    /\ pc = "courses"
    /\ asg.ci <= Len(asg.courses)
    /\ asg.courses[asg.ci].id = 0
    /\ asg' = [asg EXCEPT !.ci = @ + 1]
    /\ log' = [log EXCEPT !.fetched[asg.ci] = "skipped"]
    /\ UNCHANGED <<cfgVars, notionVars, upsertVars, pc, response, dig, pagVars>>

\* lines 437-442: the course's assignments, or the next course on an error
FetchAssignments ==
    /\ pc = "courses"
    /\ asg.ci <= Len(asg.courses)
    /\ asg.courses[asg.ci].id # 0
    /\ \/ /\ asg' = [asg EXCEPT !.assignments = canvas.assignments[asg.courses[asg.ci].id], !.ai = 1]
          /\ log' = [log EXCEPT !.fetched[asg.ci] = "ok", !.touched = TRUE]
          /\ pc' = "assignments"
       \/ /\ asg' = [asg EXCEPT !.ci = @ + 1]
          /\ log' = [log EXCEPT !.fetched[asg.ci] = "failed", !.touched = TRUE]
          /\ pc' = pc
    /\ UNCHANGED <<cfgVars, notionVars, upsertVars, response, dig, pagVars>>

\* line 443 at the end of the list: on to the next course
EndAssignments ==
    /\ pc = "assignments"
    /\ asg.ai > Len(asg.assignments)
    /\ asg' = [asg EXCEPT !.ci = @ + 1]
    /\ pc' = "courses"
    /\ UNCHANGED <<cfgVars, notionVars, upsertVars, response, dig, log, pagVars>>

\* lines 444-446: an assignment without due date when ONLY_DATED is set
SkipUndated ==
    /\ pc = "assignments"
    /\ asg.ai <= Len(asg.assignments)
    /\ LET x == normalize_assignment(asg.assignments[asg.ai], CourseName(asg.courses[asg.ci]))
       IN  cfg.ONLY_DATED /\ ~Truthy(x.due_at)
    /\ asg' = [asg EXCEPT !.ai = @ + 1]
    /\ UNCHANGED <<cfgVars, notionVars, upsertVars, pc, response, dig, log, pagVars>>

\* lines 444-448: the call of upsert_assignment
CallUpsertAssignment ==
    /\ pc = "assignments"
    /\ asg.ai <= Len(asg.assignments)
    /\ LET x == normalize_assignment(asg.assignments[asg.ai], CourseName(asg.courses[asg.ci]))
       IN  /\ ~(cfg.ONLY_DATED /\ ~Truthy(x.due_at))
           /\ ux' = [ux EXCEPT ![1] = x]
           /\ ulog' = [ulog EXCEPT !.ncalls = @ + 1, !.was[1] = x.id \in ulog.okKeys, !.branch[1] = "none"]
    /\ upc' = [upc EXCEPT ![1] = "query"]
    /\ log' = [log EXCEPT !.attempts = Append(@, <<asg.ci, asg.ai>>), !.touched = TRUE]
    /\ pc' = "upsert"
    /\ UNCHANGED <<cfgVars, notionVars, ures, response, asg, dig, pagVars>>

\* an error of upsert_assignment that ends the course's assignments
UpsertReturnBreak ==
    /\ pc = "upsert"
    /\ upc[1] \in {"done", "raised"}
    /\ upc' = [upc EXCEPT ![1] = "idle"]
    /\ ux' = [ux EXCEPT ![1] = NoRecord]
    /\ ures' = [ures EXCEPT ![1] = <<>>]
    /\ ulog' = [ulog EXCEPT !.branch[1] = "none", !.was[1] = FALSE]
    /\ log' = [log EXCEPT !.errors = IF upc[1] = "raised" THEN Append(@, <<asg.ci, asg.ai>>) ELSE @]
    /\ asg' = [asg EXCEPT !.ai = IF upc[1] = "raised" THEN Len(asg.assignments) + 1 ELSE @ + 1]
    /\ pc' = "assignments"
    /\ UNCHANGED <<cfgVars, notionVars, response, dig, pagVars>>

\* lines 447-452: upsert_assignment returned or raised; either way its locals
\* are gone and the loop goes on with the next assignment
UpsertReturn ==
    /\ pc = "upsert"
    /\ upc[1] \in {"done", "raised"}
    /\ upc' = [upc EXCEPT ![1] = "idle"]
    /\ ux' = [ux EXCEPT ![1] = NoRecord]
    /\ ures' = [ures EXCEPT ![1] = <<>>]
    /\ ulog' = [ulog EXCEPT !.branch[1] = "none", !.was[1] = FALSE]
    /\ log' = [log EXCEPT !.errors = IF upc[1] = "raised" THEN Append(@, <<asg.ci, asg.ai>>) ELSE @]
    /\ asg' = [asg EXCEPT !.ai = @ + 1]
    /\ pc' = "assignments"
    /\ UNCHANGED <<cfgVars, notionVars, response, dig, pagVars>>

\* line 432 at the end of the list: the assignment pass is over
EndCourses ==
    /\ pc = "courses"
    /\ asg.ci > Len(asg.courses)
    /\ pc' = "get_enrolled"
    /\ log' = [log EXCEPT !.phases = Append(@, "digest")]
    /\ UNCHANGED <<cfgVars, notionVars, upsertVars, response, asg, dig, pagVars>>

\* ------------------------------------------------------------------------
\* get_current_and_future_courses (app.py 67-118)
\* ------------------------------------------------------------------------
\* line 101: utcnow(), on the scale of ParseDate
Now == 2

\* lines 107-112: _parse; 0 stands for None, the result for None and for
\* text that is no ISO date
ParseDate(s) ==
    CASE s = "2020-01-15T00:00:00Z" -> 1
      [] s = "2024-06-01T12:00:00Z" -> 2
      [] s = "2030-01-15T00:00:00Z" -> 3
      [] OTHER -> 0

\* lines 104-106: the term's dates; a course without term has none
TermDates(c) == IF c.has_term THEN c.term ELSE [start_at |-> None, end_at |-> None]

\* line 116
KeepsCourse(c) ==
    LET sdt == ParseDate(TermDates(c).start_at)
        edt == ParseDate(TermDates(c).end_at)
    IN  (sdt = 0 /\ edt = 0) \/ (edt # 0 /\ edt >= Now) \/ (sdt # 0 /\ sdt >= Now)

\* lines 102-118
Keep(courses2) == SelectSeq(courses2, KeepsCourse)

\* an error of the digest pass that nothing catches
DigestRaisedUncaught(where) ==
    /\ pc' = "responded"
    /\ dig' = [NoDig EXCEPT !.outcome = "failed", !.failed_at = where, !.master = dig.master, !.source = dig.source, !.primary = dig.primary]

\* the digest pass ends in sync_once's except clause (lines 458-459); the
\* locals of the functions left are gone
DigestRaised(where) ==
    /\ pc' = "sync_complete"
    /\ dig' = [NoDig EXCEPT !.outcome = "failed", !.failed_at = where, !.master = dig.master, !.source = dig.source, !.primary = dig.primary]

\* lines 75-89: the listing of the caller's own courses
GetEnrolled ==
    /\ pc = "get_enrolled"
    /\ \/ /\ canvas.enrolled # <<>>
          /\ dig' = [dig EXCEPT !.courses = canvas.enrolled, !.source = "primary", !.primary = "ok"]
          /\ pc' = "master"
       \/ /\ canvas.enrolled = <<>>
          /\ dig' = [dig EXCEPT !.primary = "empty"]
          /\ pc' = "get_fallback"
       \/ /\ dig' = [dig EXCEPT !.primary = "failed"]
          /\ pc' = "get_fallback"
    /\ log' = [log EXCEPT !.touched = TRUE]
    /\ UNCHANGED <<cfgVars, notionVars, upsertVars, response, asg, pagVars>>

\* lines 92-118: the listing of all active courses, filtered by term
GetFallback ==
    /\ pc = "get_fallback"
    /\ \/ /\ dig' = [dig EXCEPT !.courses = Keep(canvas.all), !.source = "fallback"]
          /\ pc' = "master"
       \/ DigestRaised("courses")
    /\ log' = [log EXCEPT !.touched = TRUE]
    /\ UNCHANGED <<cfgVars, notionVars, upsertVars, response, asg, pagVars>>

\* ------------------------------------------------------------------------
\* get_or_create_master_page (app.py 280-303)
\* ------------------------------------------------------------------------
MASTER_TITLE == "Syllabi & Start Here (All Courses)"

\* the page id 0 is the page SYLLABI_PAGE_ID names; database pages count from 1
\* lines 282-283
ResolveMaster ==
    /\ pc = "master"
    /\ Truthy(cfg.SYLLABI_PAGE_ID)
    /\ dig' = [dig EXCEPT !.master = 0]
    /\ pc' = "clear"
    /\ UNCHANGED <<cfgVars, notionVars, upsertVars, response, asg, log, pagVars>>

\* the database pages titled title
Titled(st, title) == {i \in 1..Len(st) : st[i].props.Name = title}

\* lines 286-293: the query by title; its status is not looked at, and an
\* error's body has no results
MasterQuery ==
    /\ pc = "master"
    /\ ~Truthy(cfg.SYLLABI_PAGE_ID)
    /\ \/ \E i \in Titled(store, MASTER_TITLE) :
            /\ dig' = [dig EXCEPT !.master = store[i].id]
            /\ pc' = "clear"
       \/ /\ Titled(store, MASTER_TITLE) = {}
          /\ pc' = "master_create"
          /\ dig' = dig
       \/ /\ pc' = "master_create"
          /\ dig' = dig
    /\ log' = [log EXCEPT !.touched = TRUE]
    /\ UNCHANGED <<cfgVars, notionVars, upsertVars, response, asg, pagVars>>

\* lines 294-303
MasterCreate ==
    /\ pc = "master_create"
    /\ \/ /\ store' = Append(store, [id |-> Len(store) + 1, props |-> [Name |-> MASTER_TITLE]])
          /\ children' = ((Len(store) + 1) :> <<>>) @@ children
          /\ dig' = [dig EXCEPT !.master = Len(store) + 1]
          /\ pc' = "clear"
       \/ /\ DigestRaised("master")
          /\ UNCHANGED notionVars
    /\ log' = [log EXCEPT !.touched = TRUE]
    /\ UNCHANGED <<cfgVars, upsertVars, response, asg, pagVars>>

\* ------------------------------------------------------------------------
\* clear_page_children (app.py 312-337)
\* ------------------------------------------------------------------------
\* line 317
FirstUrl == "children?page_size=100"

\* The destination's answer to a listing of the children after the first
\* `start`: a page of results, has_more and the cursor of the next page.
ListChildren(kids, start) ==
    [ results |-> SubSeq(kids, start + 1, IF start + PageSize < Len(kids) THEN start + PageSize ELSE Len(kids)),
      has_more |-> start + PageSize < Len(kids),
      next_cursor |-> IF start + PageSize < Len(kids) THEN Str(start + PageSize) ELSE None ]

\* data.get(key) for a string-valued key
Get(data, key) == IF key \in DOMAIN data THEN data[key] ELSE None

\* line 334: the URL of the next listing, None when the loop ends
next_listing(data) == IF data.has_more /\ Truthy(Get(data, "next_url")) THEN Get(data, "next_url") ELSE None

heading(text) == [type |-> "heading_2", tag |-> "", course |-> "", title |-> text, href |-> None, ci |-> 0]

\* a block list without heading
StartBlocksBare(d) == [d EXCEPT !.blocks = <<>>, !.di = 1, !.step = "syllabus"]

\* the block list starts with the heading (line 354); ci is the place of the
\* bullet's course in the list of courses
StartBlocks(d) == [d EXCEPT !.blocks = <<heading("Sync run")>>, !.di = 1, !.step = "syllabus"]

\* line 352, the entry
ClearStart ==
    /\ pc = "clear"
    /\ dig' = [dig EXCEPT !.url = FirstUrl]
    /\ pc' = "clear_list"
    /\ UNCHANGED <<cfgVars, notionVars, upsertVars, response, asg, log, pagVars>>

\* lines 319-324: one listing of the children
ClearList ==
    /\ pc = "clear_list"
    /\ dig.url = FirstUrl
    /\ \/ LET data == ListChildren(children[dig.master], 0)
          IN  IF data.results = <<>>
              THEN pc' = "digest" /\ dig' = StartBlocks(dig)
              ELSE pc' = "clear_delete" /\ dig' = [dig EXCEPT !.data = data, !.bi = 1]
       \/ DigestRaised("clear")
    /\ log' = [log EXCEPT !.touched = TRUE]
    /\ UNCHANGED <<cfgVars, notionVars, upsertVars, response, asg, pagVars>>

\* the children without the block b
Without(kids, b) == SelectSeq(kids, LAMBDA k : k # b)

\* lines 326-332: the delete of one child; 404 says it is gone already
ClearDelete ==
    /\ pc = "clear_delete"
    /\ dig.bi <= Len(dig.data.results)
    /\ \/ \E status \in {200, 404} :
            /\ children' = [children EXCEPT ![dig.master] = Without(@, dig.data.results[dig.bi])]
            /\ dig' = [dig EXCEPT !.bi = @ + 1]
            /\ pc' = pc
       \/ /\ DigestRaised("clear")
          /\ children' = children
    /\ log' = [log EXCEPT !.touched = TRUE]
    /\ UNCHANGED <<cfgVars, store, upsertVars, response, asg, pagVars>>

\* lines 333-337: another listing, or the end of the loop
ClearNext ==
    /\ pc = "clear_delete"
    /\ dig.bi > Len(dig.data.results)
    /\ IF next_listing(dig.data) # None
       THEN pc' = "clear_list" /\ dig' = [dig EXCEPT !.url = next_listing(dig.data)]
       ELSE pc' = "digest" /\ dig' = StartBlocks(dig)
    /\ UNCHANGED <<cfgVars, notionVars, upsertVars, response, asg, log, pagVars>>

\* ------------------------------------------------------------------------
\* The text classifier (app.py 193-211), on the titles the model uses
\* ------------------------------------------------------------------------
\* lines 201-204: NFKC, runs of white space to one space, trimmed, lower case
norm(t) ==
    CASE t = "Start Here" -> "start here"
      [] t = " Start  Here: Week 1" -> "start here: week 1"
      [] t = "Syllabus" -> "syllabus"
      [] t = "Week 1" -> "week 1"
      [] t = "Restart Herein" -> "restart herein"
      [] t = "Welcome" -> "welcome"
      [] t = "Unit 1" -> "unit 1"
      [] t = "Front Page" -> "front page"
      [] t = "Syllabus.PDF" -> "syllabus.pdf"
      [] t = "notes.docx" -> "notes.docx"
      [] t = "syllables.png" -> "syllables.png"
      [] t = "image.png" -> "image.png"
      [] OTHER -> ""

\* lines 206-208: the normalised titles above that one of ORIENT_PATTERNS finds
looks_like_orientation(title) == norm(title) \in {"start here", "start here: week 1", "welcome"}

\* lines 210-211: those that SYLLAB_PAT finds
looks_like_syllabus(title) == norm(title) \in {"syllabus", "syllabus.pdf", "syllables.png"}

\* line 383: "start" in norm(title)
HasStart(title) == norm(title) \in {"start here", "start here: week 1", "restart herein"}

\* line 276: name.lower() ends with .pdf, .doc or .docx
KeepExt(name) == norm(name) \in {"syllabus.pdf", "notes.docx"}

\* ------------------------------------------------------------------------
\* summarize_intros_and_syllabi, the loop over the courses (app.py 356-426)
\* ------------------------------------------------------------------------
\* lines 339-344; ci is the place of the bullet's course in the list
bullet(tag, cname, title, href, ci) == [type |-> "bulleted_list_item", tag |-> tag, course |-> cname, title |-> title, href |-> href, ci |-> ci]

\* the course the loop is at, its name and its content in Canvas
DigCourse == dig.courses[dig.di]
DigName == CourseName(DigCourse)
DigContent == canvas.content[DigCourse.id]

\* lines 356-359: a course without id is passed over
DigestSkipCourse ==
    /\ pc = "digest"
    /\ dig.di <= Len(dig.courses)
    /\ DigCourse.id = 0
    /\ dig' = [dig EXCEPT !.di = @ + 1]
    /\ UNCHANGED <<cfgVars, notionVars, upsertVars, pc, response, asg, log, pagVars>>

\* lines 365-374 with get_syllabus_html (220-225)
DigestSyllabus ==
    /\ pc = "digest"
    /\ dig.di <= Len(dig.courses)
    /\ DigCourse.id # 0
    /\ dig.step = "syllabus"
    /\ \/ /\ dig' = [dig EXCEPT !.step = "front", !.blocks = IF Truthy(DigContent.syllabus_body) THEN Append(@, bullet("[Syllabus]", DigName, "", "/assignments/syllabus", dig.di)) ELSE @]
          /\ pc' = pc
       \/ DigestRaised("syllabus")
    /\ log' = [log EXCEPT !.touched = TRUE]
    /\ UNCHANGED <<cfgVars, notionVars, upsertVars, response, asg, pagVars>>

\* get_front_page (226-240): the front page is one of the course's pages;
\* without one the request ends 404, and any HTTP error gives None
get_front_page(content) ==
    {None} \cup (IF content.front = 0 THEN {}
                 ELSE {IF Truthy(content.pages[content.front].title) THEN content.pages[content.front].title ELSE "Front Page"})

\* lines 380-384, on the title of the front page
FrontPageListed(title) == title # None /\ (looks_like_orientation(title) \/ looks_like_syllabus(title) \/ HasStart(title))

\* lines 377-390
DigestFrontPage ==
    /\ pc = "digest"
    /\ dig.di <= Len(dig.courses)
    /\ dig.step = "front"
    /\ \E fp \in get_front_page(DigContent) :
          dig' = [dig EXCEPT !.step = "pages", !.blocks = IF FrontPageListed(fp) THEN Append(@, bullet("[Front Page]", DigName, fp, "web_url", dig.di)) ELSE @]
    /\ log' = [log EXCEPT !.touched = TRUE]
    /\ UNCHANGED <<cfgVars, notionVars, upsertVars, pc, response, asg, pagVars>>

\* line 247: p.get("title") or ""
TitleOf(p) == IF Truthy(p.title) THEN p.title ELSE ""

\* line 397
PageListed(p) == looks_like_orientation(TitleOf(p)) \/ looks_like_syllabus(TitleOf(p))

\* lines 396-403: a bullet for each page whose title passes the test
PageBullets == LET kept == SelectSeq(DigContent.pages, PageListed) IN [i \in 1..Len(kept) |-> bullet("[Page]", DigName, TitleOf(kept[i]), "web_url", dig.di)]

\* lines 393-403 with get_pages_with_bodies (242-253): the listing and every
\* page's body are fetched before any bullet is made
DigestPages ==
    /\ pc = "digest"
    /\ dig.di <= Len(dig.courses)
    /\ dig.step = "pages"
    /\ \/ /\ dig' = [dig EXCEPT !.step = "modules", !.blocks = @ \o PageBullets]
          /\ pc' = pc
       \/ DigestRaised("pages")
    /\ log' = [log EXCEPT !.touched = TRUE]
    /\ UNCHANGED <<cfgVars, notionVars, upsertVars, response, asg, pagVars>>

RECURSIVE ModuleItems(_)
\* get_modules_and_items (255-266): the items of all modules, in order
ModuleItems(mods) == IF mods = <<>> THEN <<>> ELSE [i \in 1..Len(Head(mods).items) |-> [module |-> Head(mods).name, title |-> TitleOf(Head(mods).items[i])]] \o ModuleItems(Tail(mods))

\* lines 410-414
ItemListed(it) == looks_like_orientation(it.title) \/ looks_like_syllabus(it.title) \/ looks_like_orientation(IF Truthy(it.module) THEN it.module ELSE "")

\* lines 409-415: a bullet for each module item that passes the test
ModuleBullets == LET kept == SelectSeq(ModuleItems(DigContent.modules), ItemListed) IN [i \in 1..Len(kept) |-> bullet("[Module]", DigName, kept[i].title, "web_url", dig.di)]

\* lines 406-415
DigestModules ==
    /\ pc = "digest"
    /\ dig.di <= Len(dig.courses)
    /\ dig.step = "modules"
    /\ \/ /\ dig' = [dig EXCEPT !.step = "files", !.blocks = @ \o ModuleBullets]
          /\ pc' = pc
       \/ DigestRaised("modules")
    /\ log' = [log EXCEPT !.touched = TRUE]
    /\ UNCHANGED <<cfgVars, notionVars, upsertVars, response, asg, pagVars>>

\* line 276, on a file's name
FileKept(f) == looks_like_syllabus(f.display_name) \/ KeepExt(f.display_name)

\* lines 421-422: a bullet for each file find_syllabus_files kept
FileBullets == LET kept == SelectSeq(DigContent.files, FileKept) IN [i \in 1..Len(kept) |-> bullet("[File]", DigName, kept[i].display_name, "url", dig.di)]

\* lines 418-424 with find_syllabus_files (268-278); then the next course
DigestFiles ==
    /\ pc = "digest"
    /\ dig.di <= Len(dig.courses)
    /\ dig.step = "files"
    /\ \/ /\ dig' = [dig EXCEPT !.step = "syllabus", !.di = @ + 1, !.blocks = @ \o FileBullets]
          /\ pc' = pc
       \/ DigestRaised("files")
    /\ log' = [log EXCEPT !.touched = TRUE]
    /\ UNCHANGED <<cfgVars, notionVars, upsertVars, response, asg, pagVars>>

\* append_blocks (305-310)
append_blocks(kids, blocks) == IF blocks = <<>> THEN kids ELSE kids \o blocks

\* line 426, then "Master page updated." (line 457)
DigestAppend ==
    /\ pc = "digest"
    /\ dig.di > Len(dig.courses)
    /\ \/ /\ children' = [children EXCEPT ![dig.master] = append_blocks(@, dig.blocks)]
          /\ dig' = [dig EXCEPT !.outcome = "ok"]
          /\ pc' = "sync_complete"
       \/ /\ DigestRaised("append")
          /\ children' = children
    /\ log' = [log EXCEPT !.touched = TRUE]
    /\ UNCHANGED <<cfgVars, store, upsertVars, response, asg, pagVars>>

\* ------------------------------------------------------------------------
\* The worlds a run starts in
\* ------------------------------------------------------------------------
RECURSIVE SeqsUpTo(_, _)
\* the sequences over S of length n at most
SeqsUpTo(S, n) == IF n = 0 THEN {<<>>} ELSE SeqsUpTo(S, n - 1) \cup {Append(q, e) : q \in {w \in SeqsUpTo(S, n - 1) : Len(w) = n - 1}, e \in S}

\* a course of a listing: id 0 is a course without id, course 2 has no name
CourseWithTerm(id, start, end) == [id |-> id, name |-> IF id = 1 THEN "Bio 101" ELSE None, has_term |-> TRUE, term |-> [start_at |-> start, end_at |-> end]]

Course(id) == [id |-> id, name |-> IF id = 1 THEN "Bio 101" ELSE None, has_term |-> FALSE, term |-> [start_at |-> None, end_at |-> None]]

\* a listing names a course once
CourseLists == {q \in SeqsUpTo({Course(0), Course(1), Course(2)}, MaxCourses) : \A i, j \in 1..Len(q) : q[i] = q[j] => i = j}

\* the assignments of course cid: Canvas ids are unique, the second has no name
AsgLists(cid) == UNION { { [i \in 1..k |-> SrcAssignment(MaxAsg * (cid - 1) + i, IF i = 1 THEN "Homework" ELSE None, due[i])] : due \in [1..k -> {None, "2024-05-01T23:59:00Z"}] } : k \in 0..MaxAsg }

\* what Canvas holds of a course beside its assignments
Content(syllabus, pages, front, modules, files) == [syllabus_body |-> syllabus, pages |-> pages, front |-> front, modules |-> modules, files |-> files]

PageSets == { <<>>, <<[title |-> "Start Here"]>>, <<[title |-> "Week 1"], [title |-> "Syllabus"]>> }

ModuleSets == { <<>>, <<[name |-> "Unit 1", items |-> <<[title |-> "Syllabus"], [title |-> "Week 1"]>>], [name |-> "Welcome", items |-> <<[title |-> "Week 1"]>>]>> }

FileSets == { <<>>, <<[display_name |-> "Syllabus.PDF"], [display_name |-> "image.png"], [display_name |-> "notes.docx"]>> }

Contents == { Content(sy, pg, fr, mo, fi) : sy \in {None, "<p>Read this first</p>"}, pg \in PageSets, fr \in 0..1, mo \in ModuleSets, fi \in FileSets } \ { Content(sy, <<>>, 1, mo, fi) : sy \in {None, "<p>Read this first</p>"}, mo \in ModuleSets, fi \in FileSets }

\* a course with everything, and one with a syllabus only
FullContent == Content("<p>Read this first</p>", <<[title |-> " Start  Here: Week 1"], [title |-> "Syllabus"]>>, 0, <<[name |-> "Welcome", items |-> <<[title |-> "Week 1"]>>]>>, <<[display_name |-> "syllables.png"]>>)

SyllabusOnly == Content("<p>Syllabus</p>", <<>>, 0, <<>>, <<>>)

\* child blocks a digest page holds from earlier
PriorBlocks(n) == [i \in 1..n |-> [type |-> "bulleted_list_item", tag |-> "prior", course |-> "", title |-> Str(i), href |-> None, ci |-> 0]]

MasterPage == [id |-> 1, props |-> [Name |-> MASTER_TITLE]]

\* the destination before a run: the digest page is configured, or is a
\* page of the database, or does not exist yet
Destinations(priors) ==
    { [page |-> "pg", store |-> <<>>, children |-> (0 :> PriorBlocks(n))] : n \in priors }
    \cup { [page |-> "", store |-> <<MasterPage>>, children |-> (1 :> PriorBlocks(n))] : n \in priors }
    \cup { [page |-> "", store |-> <<>>, children |-> <<>>] }

\* the listing of all active courses with their terms, for the fallback
SomeTerms == <<CourseWithTerm(1, "2024-06-01T12:00:00Z", "2030-01-15T00:00:00Z"), CourseWithTerm(2, "2020-01-15T00:00:00Z", "2020-01-15T00:00:00Z"), Course(2)>>

\* ------------------------------------------------------------------------
\* The run triggered through /sync
\* ------------------------------------------------------------------------
Init ==
    /\ \E secret \in {"", "k1"}, dated \in BOOLEAN, dest \in Destinations({1}), active \in CourseLists, a1 \in {a \in AsgLists(1) : Len(a) <= 1}, a2 \in {a \in AsgLists(2) : Len(a) = MaxAsg} :
          /\ cfg = [SECRET_KEY |-> secret, ONLY_DATED |-> dated, SYLLABI_PAGE_ID |-> dest.page]
          /\ store = dest.store
          /\ children = dest.children
          /\ canvas = [active |-> active, assignments |-> <<a1, a2>>, enrolled |-> IF dest.store = <<>> THEN <<Course(0), Course(1)>> ELSE <<>>, all |-> <<CourseWithTerm(2, "2020-01-15T00:00:00Z", "2020-01-15T00:00:00Z"), CourseWithTerm(1, "2024-06-01T12:00:00Z", "2030-01-15T00:00:00Z")>>, content |-> <<FullContent, SyllabusOnly>>]
    /\ UpsertIdle
    /\ pc = "idle"
    /\ response = None
    /\ asg = NoAsg
    /\ dig = NoDig
    /\ log = [NoLog EXCEPT !.store0 = store, !.children0 = children]
    /\ PagOff

NextAssignments == GetActiveCourses \/ SkipCourse \/ FetchAssignments \/ EndAssignments \/ SkipUndated \/ CallUpsertAssignment \/ UpsertQuery(1) \/ UpsertWrite(1) \/ UpsertReturn \/ EndCourses

NextCourses == GetEnrolled \/ GetFallback

NextDigest == NextCourses \/ ResolveMaster \/ MasterQuery \/ MasterCreate \/ ClearStart \/ ClearList \/ ClearDelete \/ ClearNext \/ DigestSkipCourse \/ DigestSyllabus \/ DigestFrontPage \/ DigestPages \/ DigestModules \/ DigestFiles \/ DigestAppend \/ SyncReturn

Next == Receive \/ Sync \/ NextAssignments \/ NextDigest

Spec == Init /\ [][Next]_vars

\* ------------------------------------------------------------------------
\* The digest pass alone: the run was authorized and Canvas listed no active
\* course, so the assignment pass did nothing
\* ------------------------------------------------------------------------
AfterAssignments ==
    /\ UpsertIdle
    /\ pc = "get_enrolled"
    /\ response = None
    /\ asg = [NoAsg EXCEPT !.ci = 1]
    /\ dig = NoDig
    /\ log = [NoLog EXCEPT !.store0 = store, !.children0 = children, !.invoked = TRUE, !.touched = TRUE, !.phases = <<"assignments", "digest">>]
    /\ PagOff

InitDigest ==
    /\ \E dest \in Destinations(0..MaxPrior), enrolled \in CourseLists, content \in Contents :
          /\ cfg = [SECRET_KEY |-> "k1", ONLY_DATED |-> TRUE, SYLLABI_PAGE_ID |-> dest.page]
          /\ store = dest.store
          /\ children = dest.children
          /\ canvas = [active |-> <<>>, assignments |-> <<<<>>, <<>>>>, enrolled |-> enrolled, all |-> SomeTerms, content |-> <<content, SyllabusOnly>>]
    /\ AfterAssignments

SpecDigest == InitDigest /\ [][NextDigest]_vars

\* the texts of a term's dates: none, no date, past, now, to come
DateTexts == {None, "next fall", "2020-01-15T00:00:00Z", "2024-06-01T12:00:00Z", "2030-01-15T00:00:00Z"}

TermCourses == {CourseWithTerm(1, start, end) : start \in DateTexts, end \in DateTexts} \cup {Course(2)}

InitCourses ==
    /\ \E enrolled \in {<<>>, <<Course(1)>>}, all \in SeqsUpTo(TermCourses, MaxCourses) :
          canvas = [active |-> <<>>, assignments |-> <<<<>>, <<>>>>, enrolled |-> enrolled, all |-> all, content |-> <<SyllabusOnly, SyllabusOnly>>]
    /\ cfg = [SECRET_KEY |-> "k1", ONLY_DATED |-> TRUE, SYLLABI_PAGE_ID |-> "pg"]
    /\ store = <<>>
    /\ children = (0 :> <<>>)
    /\ AfterAssignments

SpecCourses == InitCourses /\ [][NextCourses]_vars

\* ------------------------------------------------------------------------
\* Properties
\* ------------------------------------------------------------------------
\* how often the run called upsert_assignment for assignment ai of course ci
AttemptsOf(ci, ai) == Cardinality({k \in 1..Len(log.attempts) : log.attempts[k] = <<ci, ai>>})

\* the assignment pass is over
PassOver == Len(log.phases) = 2

\* C2: every assignment of a course with id whose fetch succeeded is upserted
\* once if it has a due date or ONLY_DATED is off and never otherwise, whatever
\* failed for other courses and assignments; a course whose fetch failed gets
\* no upsert, and the loop goes on to the courses after it.
C2_Isolation ==
    /\ \A k \in 1..Len(log.attempts) : AttemptsOf(log.attempts[k][1], log.attempts[k][2]) = 1
    /\ PassOver =>
         \A ci \in 1..Len(canvas.active) :
            LET c == canvas.active[ci]
                list == IF c.id = 0 THEN <<>> ELSE canvas.assignments[c.id]
            IN  /\ c.id # 0 => log.fetched[ci] \in {"ok", "failed"}
                /\ log.fetched[ci] = "ok" =>
                     \A ai \in 1..Len(list) : AttemptsOf(ci, ai) = IF list[ai].due_at # None \/ ~cfg.ONLY_DATED THEN 1 ELSE 0
                /\ log.fetched[ci] # "ok" => \A k \in 1..Len(log.attempts) : log.attempts[k][1] # ci

\* the first course's fetch failed and an upsert of the second course's
\* first assignment failed, yet its second assignment was upserted
C2_Witness == PassOver /\ Len(canvas.active) = 2 /\ log.fetched = <<"failed", "ok">> /\ log.errors = <<<<2, 1>>>> /\ AttemptsOf(2, 2) = 1 /\ cfg.ONLY_DATED

\* the key of a request's JSON body, None without one
BodyKey(body) == IF body.kind = "object" THEN body.key ELSE None

\* C5: sync_once runs only if a secret is configured and the key of the
\* query or of the body equals it; a request without matching key, and any
\* request when no secret is configured, is answered "unauthorized" and
\* neither store is called or changed.
C5_Authorization ==
    /\ [](response = "unauthorized" => ~log.invoked /\ ~log.touched /\ store = log.store0 /\ children = log.children0 /\ log.attempts = <<>>)
    /\ [](log.invoked \/ log.touched => Truthy(cfg.SECRET_KEY))
    /\ [][pc = "received" =>
            /\ log'.invoked => Truthy(cfg.SECRET_KEY) /\ (log.req.q = cfg.SECRET_KEY \/ BodyKey(log.req.body) = cfg.SECRET_KEY)
            /\ ~Truthy(cfg.SECRET_KEY) \/ (log.req.q # cfg.SECRET_KEY /\ BodyKey(log.req.body) # cfg.SECRET_KEY) => response' = "unauthorized" /\ pc' = "responded" /\ ~log'.invoked]_vars

\* a mismatched key was refused
C5_Witness == response = "unauthorized" /\ cfg.SECRET_KEY = "k1" /\ log.req.q = "k2" /\ pc = "responded"

\* C6: the assignment pass comes before the digest pass; a run whose passes
\* are over answers "synced" whatever failed in them; a failed digest pass
\* ends in sync_once and changes neither the upserts made nor the answer.
C6_RunLevel ==
    /\ [](log.phases \in {<<>>, <<"assignments">>, <<"assignments", "digest">>})
    /\ [](pc = "responded" /\ PassOver => response = "synced")
    /\ [](dig.outcome = "failed" => pc \in {"sync_complete", "responded"} /\ response \in {None, "synced"})
    /\ [][PassOver => log'.attempts = log.attempts /\ log'.errors = log.errors /\ ulog' = ulog /\ \A k \in Keys(store) \cup Keys(store') : Matching(store', k) = Matching(store, k)]_vars
    /\ [][pc = "sync_complete" => response' = "synced"]_vars

\* a run answered "synced" although a fetch, an upsert and the digest failed
C6_Witness == pc = "responded" /\ response = "synced" /\ dig.outcome = "failed" /\ log.errors # <<>> /\ (\E i \in 1..Len(log.fetched) : log.fetched[i] = "failed") /\ ulog.okKeys # {}

\* the place of a bullet's kind in a course's part of the digest
Rank(tag) == CASE tag = "[Syllabus]" -> 1 [] tag = "[Front Page]" -> 2 [] tag = "[Page]" -> 3 [] tag = "[Module]" -> 4 [] tag = "[File]" -> 5 [] OTHER -> 0

\* the digest is of one course with a syllabus and no modules, pages, files
SyllabusOnlyCase ==
    /\ Len(dig.courses) = 1
    /\ dig.courses[1].id # 0
    /\ Truthy(canvas.content[dig.courses[1].id].syllabus_body)
    /\ canvas.content[dig.courses[1].id].pages = <<>>
    /\ canvas.content[dig.courses[1].id].modules = <<>>
    /\ canvas.content[dig.courses[1].id].files = <<>>

\* C8: the block list starts with the heading and holds the bullets in the
\* order of the courses and, within a course, in the order Syllabus, Front
\* Page, Page, Module, File; for one course with a syllabus only, the list
\* appended is the heading and one [Syllabus] bullet.
C8_DigestContent ==
    /\ pc = "digest" \/ dig.outcome = "ok" =>
         /\ dig.blocks # <<>>
         /\ dig.blocks[1].type = "heading_2"
         /\ \A i \in 2..Len(dig.blocks) :
               /\ dig.blocks[i].type = "bulleted_list_item"
               /\ Rank(dig.blocks[i].tag) # 0
               /\ dig.blocks[i].ci \in 1..Len(dig.courses)
               /\ dig.courses[dig.blocks[i].ci].id # 0
               /\ dig.blocks[i].course = CourseName(dig.courses[dig.blocks[i].ci])
         /\ \A i, j \in 2..Len(dig.blocks) :
               i < j => \/ dig.blocks[i].ci < dig.blocks[j].ci
                        \/ dig.blocks[i].ci = dig.blocks[j].ci /\ Rank(dig.blocks[i].tag) <= Rank(dig.blocks[j].tag)
    /\ dig.outcome = "ok" /\ SyllabusOnlyCase =>
         /\ Len(dig.blocks) = 2
         /\ dig.blocks[2].tag = "[Syllabus]"
         /\ Len(children[dig.master]) >= 2
         /\ SubSeq(children[dig.master], Len(children[dig.master]) - 1, Len(children[dig.master])) = dig.blocks

\* the digest of one course with a syllabus only was appended
C8_Witness == dig.outcome = "ok" /\ SyllabusOnlyCase /\ Len(dig.blocks) = 2 /\ children[dig.master] = dig.blocks

\* C3: after a digest pass without error the digest page's children are the
\* block list of this run, and no child from before the run is left.
C3_Replaced == dig.outcome = "ok" => children[dig.master] = dig.blocks

\* C10: when a course's fetch fails in the digest pass, nothing is appended
\* and the digest page is left empty: neither the prior digest nor a block of
\* the new one.
C10_ClearedOnFailure == dig.failed_at \in {"syllabus", "pages", "modules", "files"} => children[dig.master] = <<>>

\* the term of a course has ended: its end date is defined and in the past
Ended(c) == ParseDate(TermDates(c).end_at) # 0 /\ ParseDate(TermDates(c).end_at) < Now

\* C7: the primary listing is returned when it has a course; otherwise the
\* fallback listing is, without the courses whose term has ended, and those
\* are the only courses left out.
C7_Selection ==
    pc = "master" =>
        /\ dig.source = "primary" => dig.primary = "ok" /\ canvas.enrolled # <<>> /\ dig.courses = canvas.enrolled
        /\ dig.source = "fallback" => dig.primary \in {"empty", "failed"} /\ dig.courses = SelectSeq(canvas.all, LAMBDA c : ~Ended(c))

====
